---- MODULE Spec2Model ----
(***************************************************************************)
(* Model of the two scripts of the repository:                             *)
(*   extract_mesh.py         (the Extractor): 14-cloth.html -> ClothData.json *)
(*   generate_swift_data.py  (the Renderer):  ClothData.json -> ClothReferenceData.swift *)
(*                                                                         *)
(* Text is modelled as a sequence of symbols.  A symbol is one character,  *)
(* except that a fixed literal of the scripts or of the document that is   *)
(* never split (the keywords "vertices" and "faceTriIds", the fixed header *)
(* texts the Renderer writes) is one symbol.                               *)
(*                                                                         *)
(* A Python float is represented by the shortest decimal that identifies   *)
(* it (what repr and json.dump write): [kind, neg, m, k] stands for        *)
(* (-1)^neg * m / 10^k, with no trailing zero in the fraction.  nan and    *)
(* inf are values of their own kinds.                                      *)
(***************************************************************************)
EXTENDS Integers, Sequences, FiniteSets, TLC

VARIABLES
    params,     \* description of how the source document was composed (input)
    content,    \* the file 14-cloth.html: [exists, text]
    inter,      \* the file Elements/ClothData.json: [exists, members]
    out,        \* the file Elements/ClothReferenceData.swift: [exists, text]
    ext,        \* outcome of the last Extractor run
    ren,        \* outcome of the last Renderer run
    history     \* the runs so far, oldest first: "extract" / "render"

vars == <<params, content, inter, out, ext, ren, history>>

-----------------------------------------------------------------------------
(* Bounds *)

MaxLen == 26        \* longest numeric block of a document
MaxRuns == 3        \* number of script runs in one behaviour

-----------------------------------------------------------------------------
(* Characters *)

WS == {" ", "\n"}

DigitChars == <<"0", "1", "2", "3", "4", "5", "6", "7", "8", "9">>

IsDigit(c) == \E d \in 1..10 : DigitChars[d] = c

DigitVal(c) == (CHOOSE d \in 1..10 : DigitChars[d] = c) - 1

DigitChar(d) == DigitChars[d + 1]

RECURSIVE Pow10(_)
Pow10(n) == IF n = 0 THEN 1 ELSE 10 * Pow10(n - 1)

\* concatenation of a sequence of sequences
RECURSIVE Flatten(_)
Flatten(ss) == IF ss = <<>> THEN <<>> ELSE Head(ss) \o Flatten(Tail(ss))

-----------------------------------------------------------------------------
(* Float and int values *)

Fin(neg, m, k) == [kind |-> "fin", neg |-> neg, m |-> m, k |-> k]
NaN == [kind |-> "nan", neg |-> FALSE, m |-> 0, k |-> 0]
Inf(neg) == [kind |-> "inf", neg |-> neg, m |-> 0, k |-> 0]

\* m / 10^k without trailing zeros in the fraction
RECURSIVE Normal(_, _, _)
Normal(neg, m, k) ==
    IF k > 0 /\ m % 10 = 0 THEN Normal(neg, m \div 10, k - 1) ELSE Fin(neg, m, k)

-----------------------------------------------------------------------------
(* extract_mesh.py: regular expression search *)

\* \s* : the first position at or after i that holds no whitespace
RECURSIVE SkipWS(_, _)
SkipWS(s, i) == IF i <= Len(s) /\ s[i] \in WS THEN SkipWS(s, i + 1) ELSE i

\* positions of the closing brackets after position l
ClosersAfter(s, l) == {c \in (l + 1)..Len(s) : s[c] = "]"}

\* the pattern  kw\s*:\s*\[([\s\S]*?)\]  matched with kw at position i
MatchAt(kw, s, i) ==
    LET j == SkipWS(s, i + 1)
        l == SkipWS(s, j + 1)
    IN  /\ s[i] = kw
        /\ j <= Len(s) /\ s[j] = ":"
        /\ l <= Len(s) /\ s[l] = "["
        /\ ClosersAfter(s, l) # {}

\* group 1 of a greedy match at i: up to the last closing bracket
GroupAtGreedy(s, i) ==
    LET l == SkipWS(s, SkipWS(s, i + 1) + 1)
        c == CHOOSE x \in ClosersAfter(s, l) : \A y \in ClosersAfter(s, l) : x >= y
    IN  SubSeq(s, l + 1, c - 1)

\* group 1 of the match at i: lazy, so up to the first closing bracket
GroupAt(s, i) ==
    LET l == SkipWS(s, SkipWS(s, i + 1) + 1)
        c == CHOOSE x \in ClosersAfter(s, l) : \A y \in ClosersAfter(s, l) : x <= y
    IN  SubSeq(s, l + 1, c - 1)

\* re.search: the leftmost match, or none
Search(kw, s) ==
    LET hits == {i \in 1..Len(s) : MatchAt(kw, s, i)}
    IN  IF hits = {}
        THEN [found |-> FALSE, group |-> <<>>]
        ELSE [found |-> TRUE,
              group |-> GroupAt(s, CHOOSE i \in hits : \A h \in hits : i <= h)]

-----------------------------------------------------------------------------
(* extract_mesh.py: tokens and numbers *)

\* str.replace(',', ' ')
ReplaceCommas(s) == [i \in 1..Len(s) |-> IF s[i] = "," THEN " " ELSE s[i]]

\* str.split(): the maximal runs of non-whitespace, in order
TokenStarts(s) == {i \in 1..Len(s) : s[i] \notin WS /\ (i = 1 \/ s[i - 1] \in WS)}

TokenEnd(s, a) ==
    CHOOSE e \in a..Len(s) :
        /\ \A j \in a..e : s[j] \notin WS
        /\ (e = Len(s) \/ s[e + 1] \in WS)

Split(s) ==
    LET starts == TokenStarts(s)
        nth(n) == CHOOSE a \in starts : Cardinality({b \in starts : b < a}) = n - 1
    IN  [n \in 1..Cardinality(starts) |-> SubSeq(s, nth(n), TokenEnd(s, nth(n)))]

\* the value of a string of digits
RECURSIVE DigitsVal(_)
DigitsVal(ds) ==
    IF ds = <<>> THEN 0
    ELSE 10 * DigitsVal(SubSeq(ds, 1, Len(ds) - 1)) + DigitVal(ds[Len(ds)])

Unsigned(tok) == IF tok # <<>> /\ tok[1] = "-" THEN Tail(tok) ELSE tok
Negative(tok) == tok # <<>> /\ tok[1] = "-"

Dots(body) == {i \in 1..Len(body) : body[i] = "."}
NoDots(body) == SelectSeq(body, LAMBDA c : c # ".")

\* float(tok) succeeds
IsFloat(tok) ==
    LET body == Unsigned(tok)
    IN  \/ body = <<"n", "a", "n">>
        \/ body = <<"i", "n", "f">>
        \/ /\ \A i \in 1..Len(body) : IsDigit(body[i]) \/ body[i] = "."
           /\ Cardinality(Dots(body)) <= 1
           /\ NoDots(body) # <<>>

\* float(tok), for a token float() accepts
FloatOf(tok) ==
    LET body == Unsigned(tok)
        k == IF Dots(body) = {} THEN 0
             ELSE Len(body) - (CHOOSE i \in Dots(body) : TRUE)
    IN  IF body = <<"n", "a", "n">> THEN NaN
        ELSE IF body = <<"i", "n", "f">> THEN Inf(Negative(tok))
        ELSE Normal(Negative(tok), DigitsVal(NoDots(body)), k)

\* int(tok) succeeds
IsInt(tok) ==
    LET body == Unsigned(tok)
    IN  body # <<>> /\ \A i \in 1..Len(body) : IsDigit(body[i])

\* int(tok), for a token int() accepts
IntOf(tok) ==
    IF Negative(tok) THEN 0 - DigitsVal(Unsigned(tok)) ELSE DigitsVal(Unsigned(tok))

-----------------------------------------------------------------------------
(* extract_mesh.py: the script *)

Unbound == [bound |-> FALSE, val |-> <<>>]
Bound(v) == [bound |-> TRUE, val |-> v]

NoFile == [exists |-> FALSE, text |-> <<>>]
NoJson == [exists |-> FALSE, members |-> <<>>]

\* the count rounded up instead of down
VertexMessageRoundedUp(vertices) == [what |-> "vertices", n |-> (Len(vertices) + 2) \div 3]

\* print(f"Extracted {len(vertices)//3} vertices")
VertexMessage(vertices) == [what |-> "vertices", n |-> Len(vertices) \div 3]

\* print(f"Extracted {len(indices)//3} triangles")
TriangleMessage(indices) == [what |-> "triangles", n |-> Len(indices) \div 3]

SavedMessage == [what |-> "saved", n |-> 0]

\* variant: `vertices` defaults to the empty list when the pattern is absent
ExtractVerticesDefaulting(text) ==
    LET v_match == Search("vertices", text)
        toks == Split(ReplaceCommas(v_match.group))
    IN  IF ~v_match.found
        THEN [var |-> Bound(<<>>), printed |-> <<>>, raised |-> FALSE]
        ELSE IF \E i \in 1..Len(toks) : ~IsFloat(toks[i])
        THEN [var |-> Unbound, printed |-> <<>>, raised |-> TRUE]
        ELSE [var |-> Bound([i \in 1..Len(toks) |-> FloatOf(toks[i])]),
              printed |-> <<[what |-> "vertices", n |-> Len(toks) \div 3]>>,
              raised |-> FALSE]

\* lines 9-13: the name `vertices` after the block, what was printed, and
\* whether float() raised
ExtractVertices(text) ==
    LET v_match == Search("vertices", text)
        toks == Split(ReplaceCommas(v_match.group))
    IN  IF ~v_match.found
        THEN [var |-> Unbound, printed |-> <<>>, raised |-> FALSE]
        ELSE IF \E i \in 1..Len(toks) : ~IsFloat(toks[i])
        THEN [var |-> Unbound, printed |-> <<>>, raised |-> TRUE]
        ELSE LET vertices == [i \in 1..Len(toks) |-> FloatOf(toks[i])]
             IN  [var |-> Bound(vertices),
                  printed |-> <<VertexMessage(vertices)>>,
                  raised |-> FALSE]

\* variant: tokens int() rejects are skipped
ExtractIndicesSkipping(text) ==
    LET i_match == Search("faceTriIds", text)
        toks == SelectSeq(Split(ReplaceCommas(i_match.group)), IsInt)
    IN  IF ~i_match.found
        THEN [var |-> Unbound, printed |-> <<>>, raised |-> FALSE]
        ELSE [var |-> Bound([i \in 1..Len(toks) |-> IntOf(toks[i])]),
              printed |-> <<[what |-> "triangles", n |-> Len(toks) \div 3]>>,
              raised |-> FALSE]

\* lines 16-20: the name `indices` after the block, what was printed, and
\* whether int() raised
ExtractIndices(text) ==
    LET i_match == Search("faceTriIds", text)
        toks == Split(ReplaceCommas(i_match.group))
    IN  IF ~i_match.found
        THEN [var |-> Unbound, printed |-> <<>>, raised |-> FALSE]
        ELSE IF \E i \in 1..Len(toks) : ~IsInt(toks[i])
        THEN [var |-> Unbound, printed |-> <<>>, raised |-> TRUE]
        ELSE LET indices == [i \in 1..Len(toks) |-> IntOf(toks[i])]
             IN  [var |-> Bound(indices),
                  printed |-> <<TriangleMessage(indices)>>,
                  raised |-> FALSE]

\* the dict with its keys the other way round
DataDictSwapped(vertices, indices) ==
    << [key |-> "indices", val |-> indices],
       [key |-> "vertices", val |-> vertices] >>

\* lines 22-25: the dict, in insertion order
DataDict(vertices, indices) ==
    << [key |-> "vertices", val |-> vertices],
       [key |-> "indices", val |-> indices] >>

\* open(path, 'w') followed by the writes: the old contents are discarded
WriteJson(old, members) == [exists |-> TRUE, members |-> members]

\* json.dump: the members of the object in the dict's order
JsonDump(data) == data

\* variant: the intermediate file is opened for writing before the document
\* is parsed, so a failing run leaves it empty
ExtractMeshOpenFirst(html, oldJson) ==
    LET v == ExtractVertices(html.text)
        i == ExtractIndices(html.text)
        ok == html.exists /\ ~v.raised /\ ~i.raised /\ v.var.bound /\ i.var.bound
    IN  [status |-> IF ok THEN "ok" ELSE "failed",
         stdout |-> <<>>,
         vertices |-> Unbound, indices |-> Unbound,
         json |-> IF ok
                  THEN WriteJson(oldJson, JsonDump(DataDict(v.var.val, i.var.val)))
                  ELSE WriteJson(oldJson, <<>>)]

\* the whole script: its exit status, its standard output, the names bound
\* when it ends, and the intermediate file it leaves behind
ExtractMesh(html, oldJson) ==
    LET v == ExtractVertices(html.text)
        i == ExtractIndices(html.text)
    IN  IF ~html.exists
        THEN [status |-> "FileNotFoundError", stdout |-> <<>>,
              vertices |-> Unbound, indices |-> Unbound, json |-> oldJson]
        ELSE IF v.raised
        THEN [status |-> "ValueError", stdout |-> <<>>,
              vertices |-> Unbound, indices |-> Unbound, json |-> oldJson]
        ELSE IF i.raised
        THEN [status |-> "ValueError", stdout |-> v.printed,
              vertices |-> v.var, indices |-> Unbound, json |-> oldJson]
        ELSE IF ~v.var.bound \/ ~i.var.bound
        THEN [status |-> "NameError", stdout |-> v.printed \o i.printed,
              vertices |-> v.var, indices |-> i.var, json |-> oldJson]
        ELSE [status |-> "ok",
              stdout |-> v.printed \o i.printed \o <<SavedMessage>>,
              vertices |-> v.var, indices |-> i.var,
              json |-> WriteJson(oldJson, JsonDump(DataDict(v.var.val, i.var.val)))]

-----------------------------------------------------------------------------
(* generate_swift_data.py: formatting *)

ChunkSize == 12
FracDigits == 6

\* the decimal digits of a natural number
RECURSIVE NatStr(_)
NatStr(n) == IF n < 10 THEN <<DigitChar(n)>> ELSE Append(NatStr(n \div 10), DigitChar(n % 10))

\* the two lowest digits only
StrLowDigits(x) == NatStr(x % 100)

\* str(x) for an int
Str(x) == IF x < 0 THEN <<"-">> \o NatStr(0 - x) ELSE NatStr(x)

\* the last `width` decimal digits of n, with leading zeros
RECURSIVE Padded(_, _)
Padded(n, width) ==
    IF width = 0 THEN <<>> ELSE Append(Padded(n \div 10, width - 1), DigitChar(n % 10))

\* |x| * 10^6 with the further digits cut off
MicroTruncated(m, k) ==
    IF k <= FracDigits THEN m * Pow10(FracDigits - k) ELSE m \div Pow10(k - FracDigits)

\* |x| * 10^6 rounded to an integer the way the 'f' presentation rounds the
\* double: to nearest, a tie (only an exactly represented value can be one
\* among the numbers of the documents) to even
Micro(m, k) ==
    IF k <= FracDigits
    THEN m * Pow10(FracDigits - k)
    ELSE LET d == Pow10(k - FracDigits)
             q == m \div d
             r == m % d
         IN  IF 2 * r < d THEN q
             ELSE IF 2 * r > d THEN q + 1
             ELSE IF q % 2 = 0 THEN q ELSE q + 1

\* f"{x:.6f}"
Format6f(x) ==
    LET sign == IF x.neg THEN <<"-">> ELSE <<>>
        u == Micro(x.m, x.k)
    IN  IF x.kind = "nan" THEN <<"n", "a", "n">>
        ELSE IF x.kind = "inf" THEN sign \o <<"i", "n", "f">>
        ELSE sign \o NatStr(u \div Pow10(FracDigits)) \o <<".">>
                  \o Padded(u % Pow10(FracDigits), FracDigits)

\* ", ".join(parts)
RECURSIVE Join(_)
Join(parts) ==
    IF parts = <<>> THEN <<>>
    ELSE IF Len(parts) = 1 THEN parts[1]
    ELSE parts[1] \o <<",", " ">> \o Join(Tail(parts))

\* range(start, stop, 12) as a list
RECURSIVE Range(_, _)
Range(start, stop) ==
    IF start >= stop THEN <<>> ELSE <<start>> \o Range(start + ChunkSize, stop)

Min(a, b) == IF a < b THEN a ELSE b

\* xs[i:i+11]: a chunk one value short
ChunkShort(xs, i) == SubSeq(xs, i + 1, Min(i + ChunkSize - 1, Len(xs)))

\* xs[i:i+12]
Chunk(xs, i) == SubSeq(xs, i + 1, Min(i + ChunkSize, Len(xs)))

Indent == "        "

\* f.write(f"        {line},\n")
ValueLine(line) == <<Indent>> \o line \o <<",", "\n">>

\* the writes of the vertices loop
VertexLines(verts) ==
    LET starts == Range(0, Len(verts))
    IN  Flatten([c \in 1..Len(starts) |->
            LET chunk == Chunk(verts, starts[c])
            IN  ValueLine(Join([j \in 1..Len(chunk) |-> Format6f(chunk[j])]))])

\* the writes of the indices loop
IndexLines(inds) ==
    LET starts == Range(0, Len(inds))
    IN  Flatten([c \in 1..Len(starts) |->
            LET chunk == Chunk(inds, starts[c])
            IN  ValueLine(Join([j \in 1..Len(chunk) |-> Str(chunk[j])]))])

VerticesOpen == "    static let vertices: [Float] = ["
IndicesOpen == "    static let indices: [UInt32] = ["
ArrayClose == "    ]"

\* everything the script writes to the file, in order
SwiftText(verts, inds) ==
    <<"import Foundation", "\n", "\n">>
    \o <<"struct ClothReferenceData {", "\n">>
    \o <<VerticesOpen, "\n">>
    \o VertexLines(verts)
    \o <<ArrayClose, "\n", "\n">>
    \o <<IndicesOpen, "\n">>
    \o IndexLines(inds)
    \o <<ArrayClose, "\n">>
    \o <<"}", "\n">>

-----------------------------------------------------------------------------
(* generate_swift_data.py: the script *)

\* json.load: the object as a mapping; a repeated key keeps its last value
HasKey(members, key) == \E i \in 1..Len(members) : members[i].key = key

Lookup(members, key) ==
    LET at == {i \in 1..Len(members) : members[i].key = key}
    IN  members[CHOOSE i \in at : \A j \in at : j <= i].val

\* open(path, 'a') followed by the writes: the old contents are kept
AppendSwift(old, text) == [exists |-> TRUE, text |-> old.text \o text]

\* open(path, 'w') followed by the writes: the old contents are discarded
WriteSwift(old, text) == [exists |-> TRUE, text |-> text]

\* the whole script: its exit status and the rendered file it leaves behind
GenerateSwiftData(json, oldSwift) ==
    IF ~json.exists
    THEN [status |-> "FileNotFoundError", swift |-> oldSwift]
    ELSE IF ~HasKey(json.members, "vertices") \/ ~HasKey(json.members, "indices")
    THEN [status |-> "KeyError", swift |-> oldSwift]
    ELSE [status |-> "ok",
          swift |-> WriteSwift(oldSwift,
                        SwiftText(Lookup(json.members, "vertices"),
                                  Lookup(json.members, "indices")))]

-----------------------------------------------------------------------------
(* The source documents of the model *)

\* a numeral of a document and the number it denotes
Num(chars, val) == [chars |-> chars, val |-> val]

FloatPalettes == <<
    \* finite values: exact, rounded down, rounded up, a tie, rounded to zero
    << Num(<<"1", ".", "5">>, Fin(FALSE, 15, 1)),
       Num(<<"-", "2">>, Fin(TRUE, 2, 0)),
       Num(<<"0", ".", "0", "0", "7", "8", "1", "2", "5">>, Fin(FALSE, 78125, 7)),
       Num(<<"1", "0">>, Fin(FALSE, 10, 0)),
       Num(<<"-", "0", ".", "0", "0", "0", "0", "0", "0", "4">>, Fin(TRUE, 4, 7)),
       Num(<<"3", ".", "1", "4", "1", "5", "9", "2", "7">>, Fin(FALSE, 31415927, 7)),
       Num(<<".", "2", "5", "0">>, Fin(FALSE, 25, 2)) >>,
    \* values that are not finite
    << Num(<<"n", "a", "n">>, NaN),
       Num(<<"1", ".", "0">>, Fin(FALSE, 1, 0)),
       Num(<<"-", "i", "n", "f">>, Inf(TRUE)) >>,
    \* 1.0 .. 6.0
    << Num(<<"1", ".", "0">>, Fin(FALSE, 1, 0)),
       Num(<<"2", ".", "0">>, Fin(FALSE, 2, 0)),
       Num(<<"3", ".", "0">>, Fin(FALSE, 3, 0)),
       Num(<<"4", ".", "0">>, Fin(FALSE, 4, 0)),
       Num(<<"5", ".", "0">>, Fin(FALSE, 5, 0)),
       Num(<<"6", ".", "0">>, Fin(FALSE, 6, 0)) >> >>

IntPalettes == <<
    << Num(<<"0">>, 0), Num(<<"1">>, 1), Num(<<"2">>, 2),
       Num(<<"3", "0", "5">>, 305), Num(<<"1", "2">>, 12) >>,
    << Num(<<"-", "1">>, 0 - 1), Num(<<"0", "7">>, 7), Num(<<"0">>, 0) >> >>

\* tokens float() and int() reject
BadFloat == <<"1", ".", "5", ".", "2">>
BadInt == <<"1", ".", "5">>

\* the first n numerals of a palette, repeated as often as needed
Numerals(palette, n) == [i \in 1..n |-> palette[((i - 1) % Len(palette)) + 1]]

Separators == << <<",", " ">>, <<",">>, <<"\n", " ">> >>

RECURSIVE JoinWith(_, _)
JoinWith(parts, sep) ==
    IF parts = <<>> THEN <<>>
    ELSE IF Len(parts) = 1 THEN parts[1]
    ELSE parts[1] \o sep \o JoinWith(Tail(parts), sep)

\* one tagged array of a document
Block(kw, mode, layout, tokens, sep) ==
    LET body == JoinWith(tokens, sep)
    IN  IF mode = "omitted" THEN <<>>
        ELSE IF mode = "nocolon" THEN <<kw, " ", "[">> \o body \o <<"]">>
        ELSE IF layout = 1 THEN <<kw, ":", " ", "[">> \o body \o <<"]">>
        ELSE <<"x", kw, " ", ":", "\n", "[", "\n", " ">> \o body \o <<",", "\n", "]">>

VNumerals(p) == Numerals(FloatPalettes[p.vPal], p.vLen)
FNumerals(p) == Numerals(IntPalettes[p.fPal], p.fLen)

VTokens(p) ==
    [i \in 1..p.vLen |-> VNumerals(p)[i].chars]
    \o (IF p.defect = "badV" THEN <<BadFloat>> ELSE <<>>)

FTokens(p) ==
    [i \in 1..p.fLen |-> FNumerals(p)[i].chars]
    \o (IF p.defect = "badF" THEN <<BadInt>> ELSE <<>>)

\* the text of the document described by p
Document(p) ==
    LET v == Block("vertices", p.vMode, p.layout, VTokens(p), Separators[p.sep])
        f == Block("faceTriIds", p.fMode, p.layout, FTokens(p), Separators[p.sep])
        again == IF p.dup
                 THEN <<"vertices", ":", "[", "9", "]", "\n",
                        "faceTriIds", ":", "[", "8", "]">>
                 ELSE <<>>
    IN  <<"x", " ", "[", "]", "\n">>
        \o (IF p.order = "VF" THEN v ELSE f)
        \o <<";", "\n">>
        \o (IF p.order = "VF" THEN f ELSE v)
        \o <<"\n">> \o again

Doc(exists, vMode, fMode, vLen, fLen, vPal, fPal, sep, layout, order, dup, defect) ==
    [exists |-> exists, vMode |-> vMode, fMode |-> fMode, vLen |-> vLen,
     fLen |-> fLen, vPal |-> vPal, fPal |-> fPal, sep |-> sep, layout |-> layout,
     order |-> order, dup |-> dup, defect |-> defect]

Modes == {"block", "omitted", "nocolon"}
Defects == {"none", "badV", "badF"}

\* every length of one array, the other array short
LengthSweep ==
    {Doc(TRUE, "block", "block", lens[1], lens[2], pals[1], pals[2], 1, 1, "VF",
         FALSE, "none") :
        lens \in ((0..MaxLen) \X {0, 3}) \cup ({0, 6} \X (0..MaxLen)),
        pals \in {<<1, 1>>, <<2, 2>>, <<3, 1>>}}

\* every layout, presence and defect, the arrays short
LayoutSweep ==
    {Doc(TRUE, vMode, fMode, lens[1], lens[2], 1, 1, sep, layout, order,
         FALSE, defect) :
        vMode \in Modes, fMode \in Modes,
        lens \in {<<0, 3>>, <<3, 3>>, <<2, 4>>},
        sep \in 1..Len(Separators), layout \in 1..2, order \in {"VF", "FV"},
        defect \in Defects}

\* a second pair of arrays after the first
RepeatSweep ==
    {Doc(TRUE, "block", "block", 3, 3, 1, 1, sep, layout, order, TRUE, defect) :
        sep \in 1..Len(Separators), layout \in 1..2, order \in {"VF", "FV"},
        defect \in Defects}

Missing == Doc(FALSE, "omitted", "omitted", 0, 0, 1, 1, 1, 1, "VF", FALSE, "none")

Docs == LengthSweep \cup LayoutSweep \cup RepeatSweep \cup {Missing}

\* an intermediate file left by an earlier run
OldJson ==
    [exists |-> TRUE,
     members |-> DataDict(<<Fin(FALSE, 5, 1), Fin(FALSE, 0, 0), Fin(TRUE, 5, 1)>>,
                          <<0, 0, 0>>)]

-----------------------------------------------------------------------------
(* The state machine: the two scripts, run by hand in any order *)

NotRun == [status |-> "none", stdout |-> <<>>, vertices |-> Unbound, indices |-> Unbound]

Init ==
    /\ params \in Docs
    /\ content = IF params.exists
                 THEN [exists |-> TRUE, text |-> Document(params)]
                 ELSE NoFile
    /\ inter \in {NoJson, OldJson}
    /\ out = NoFile
    /\ ext = NotRun
    /\ ren = "none"
    /\ history = <<>>

\* python extract_mesh.py
RunExtractor ==
    /\ Len(history) < MaxRuns
    /\ LET r == ExtractMesh(content, inter)
       IN  /\ ext' = [status |-> r.status, stdout |-> r.stdout,
                      vertices |-> r.vertices, indices |-> r.indices]
           /\ inter' = r.json
    /\ history' = Append(history, "extract")
    /\ UNCHANGED <<params, content, out, ren>>

\* python generate_swift_data.py
RunRenderer ==
    /\ Len(history) < MaxRuns
    /\ LET r == GenerateSwiftData(inter, out)
       IN  /\ ren' = r.status
           /\ out' = r.swift
    /\ history' = Append(history, "render")
    /\ UNCHANGED <<params, content, inter, ext>>

Next == RunExtractor \/ RunRenderer

Spec == Init /\ [][Next]_vars

-----------------------------------------------------------------------------
(* Reading the files back, for the statements below *)

Last(seq) == seq[Len(seq)]

ExtractorRan == ext.status # "none"

\* the rendered file is the result of rendering the present intermediate file
Rendered == history # <<>> /\ Last(history) = "render" /\ ren = "ok"

Verts == Lookup(inter.members, "vertices")
Inds == Lookup(inter.members, "indices")

\* the pieces of s between the occurrences of the symbol at, in order
Pieces(s, at) ==
    LET cuts == {i \in 1..Len(s) : s[i] = at}
        nth(n) == IF n = 0 THEN 0
                  ELSE IF n = Cardinality(cuts) + 1 THEN Len(s) + 1
                  ELSE CHOOSE c \in cuts : Cardinality({d \in cuts : d <= c}) = n
    IN  [n \in 1..(Cardinality(cuts) + 1) |-> SubSeq(s, nth(n - 1) + 1, nth(n) - 1)]

\* the lines of a text
TextLines(text) == Pieces(text, "\n")

\* the lines after the line `opener`, up to the next line "    ]"
ArrayLines(text, opener) ==
    LET ls == TextLines(text)
        from == CHOOSE i \in 1..Len(ls) : ls[i] = <<opener>>
        to == CHOOSE j \in (from + 1)..Len(ls) :
                  /\ ls[j] = <<ArrayClose>>
                  /\ \A h \in (from + 1)..(j - 1) : ls[h] # <<ArrayClose>>
    IN  SubSeq(ls, from + 1, to - 1)

\* the comma-separated values of a line, blanks removed
Fields(line) ==
    LET bare == [n \in 1..Len(Pieces(line, ",")) |->
                    SelectSeq(Pieces(line, ",")[n], LAMBDA c : c \notin WS \cup {Indent})]
    IN  SelectSeq(bare, LAMBDA f : f # <<>>)

\* the values of an array of the rendered file, over all of its lines
ArrayFields(text, opener) ==
    LET ls == ArrayLines(text, opener)
    IN  Flatten([n \in 1..Len(ls) |-> Fields(ls[n])])

\* the lines of an array hold 12 values each, the last one the remainder
Chunked(ls, L) ==
    /\ Len(ls) * ChunkSize >= L
    /\ (Len(ls) - 1) * ChunkSize < L
    /\ \A n \in 1..(Len(ls) - 1) : Len(Fields(ls[n])) = ChunkSize
    /\ Len(ls) > 0 =>
          Len(Fields(Last(ls))) = (IF L % ChunkSize = 0 THEN ChunkSize ELSE L % ChunkSize)

\* C1: after a run of the Renderer, each array of the rendered file has
\* ceil(L/12) value lines for the L values of the intermediate file; every
\* line but the last holds 12 values, the last one L mod 12 when that is not 0.
ChunkingHolds ==
    Rendered =>
        /\ Chunked(ArrayLines(out.text, VerticesOpen), Len(Verts))
        /\ Chunked(ArrayLines(out.text, IndicesOpen), Len(Inds))

ChunkingWitness ==
    /\ Rendered
    /\ Len(Verts) = 2 * ChunkSize + 1
    /\ Len(ArrayLines(out.text, VerticesOpen)) = 3
    /\ Len(Inds) = 0
    /\ Len(ArrayLines(out.text, IndicesOpen)) = 0

-----------------------------------------------------------------------------
(* What a document is meant to hold, from its description *)

VBlockValid(p) == p.exists /\ p.vMode = "block" /\ p.defect # "badV"
FBlockValid(p) == p.exists /\ p.fMode = "block" /\ p.defect # "badF"

VAbsent(p) == p.exists /\ p.vMode # "block"
FAbsent(p) == p.exists /\ p.fMode # "block"

\* a token of a matched block is not a number of the block's type
Malformed(p) ==
    \/ p.exists /\ p.vMode = "block" /\ p.defect = "badV"
    \/ p.exists /\ p.fMode = "block" /\ p.defect = "badF"

VValues(p) == [i \in 1..p.vLen |-> VNumerals(p)[i].val]
FValues(p) == [i \in 1..p.fLen |-> FNumerals(p)[i].val]

ExtractStep == history' = Append(history, "extract")
RenderStep == history' = Append(history, "render")

\* C2: from a document whose vertices block holds N numbers, the Extractor
\* produces the sequence of exactly these N numbers, in order, taken from the
\* first vertices marker up to the next closing bracket.
VerticesExtracted ==
    (ExtractorRan /\ VBlockValid(params)) =>
        /\ ext.vertices.bound
        /\ Len(ext.vertices.val) = params.vLen
        /\ \A k \in 1..params.vLen : ext.vertices.val[k] = VValues(params)[k]

VerticesWitness ==
    /\ ExtractorRan /\ VBlockValid(params)
    /\ params.dup /\ params.order = "VF" /\ params.vLen = 3
    /\ ext.vertices.bound

\* C3: from a document whose faceTriIds block holds M integers, the Extractor
\* produces the sequence of exactly these M integers, in order, and stores it
\* in the intermediate file under the key indices, after the key vertices.
IndicesExtracted ==
    (ExtractorRan /\ VBlockValid(params) /\ FBlockValid(params)) =>
        /\ ext.indices.bound
        /\ Len(ext.indices.val) = params.fLen
        /\ \A k \in 1..params.fLen : ext.indices.val[k] = FValues(params)[k]
        /\ inter.exists
        /\ Len(inter.members) = 2
        /\ inter.members[1].key = "vertices"
        /\ inter.members[2].key = "indices"
        /\ inter.members[2].val = FValues(params)

IndicesWitness ==
    /\ ExtractorRan /\ VBlockValid(params) /\ FBlockValid(params)
    /\ params.fLen = 4 /\ params.layout = 2
    /\ inter.exists /\ Len(inter.members[2].val) = 4

\* C4, as claimed: with the vertices pattern absent and the faceTriIds pattern
\* present the run ends in the undefined-name failure, having printed the
\* triangle message and neither the vertex message nor "Saved".
AbsentVerticesFault ==
    (ExtractorRan /\ VAbsent(params) /\ params.fMode = "block") =>
        /\ ext.status = "NameError"
        /\ ext.stdout = <<[what |-> "triangles", n |-> params.fLen \div 3]>>
        /\ ~ext.vertices.bound

\* C4, amended: the same, when every token of the faceTriIds block is an integer.
AbsentVerticesFaultValidIds ==
    (ExtractorRan /\ VAbsent(params) /\ FBlockValid(params)) =>
        /\ ext.status = "NameError"
        /\ ext.stdout = <<[what |-> "triangles", n |-> params.fLen \div 3]>>
        /\ ~ext.vertices.bound
        /\ ext.indices.bound

AbsentVerticesWitness ==
    /\ ExtractorRan /\ VAbsent(params) /\ FBlockValid(params)
    /\ params.vMode = "nocolon"
    /\ ext.status = "NameError"

\* C5: a token of a matched block that is not a number of the block's type
\* fails the whole run with a parse error: the block's sequence is not
\* produced, nothing is saved and the intermediate file is not written.
MalformedTokenAborts ==
    [][(ExtractStep /\ Malformed(params)) =>
          /\ ext'.status = "ValueError"
          /\ \A i \in 1..Len(ext'.stdout) : ext'.stdout[i].what # "saved"
          /\ (params.defect = "badV" => ~ext'.vertices.bound)
          /\ (params.defect = "badF" => ~ext'.indices.bound)
          /\ inter' = inter]_vars

MalformedTokenWitness ==
    /\ Malformed(params) /\ params.defect = "badF" /\ params.fLen = 3
    /\ ext.status = "ValueError"
    /\ ext.vertices.bound
    /\ inter = OldJson

\* C6: a run of the Renderer right after a successful run of it leaves the
\* rendered file as it was, and a run of the Extractor after an earlier run of
\* it leaves the intermediate file as it was.
RerunIdempotent ==
    [][/\ (RenderStep /\ Rendered) => out' = out
       /\ (ExtractStep /\ ExtractorRan) => inter' = inter]_vars

RerunWitness ==
    /\ Len(history) = 3
    /\ history[1] = "extract" /\ history[2] = "render" /\ history[3] = "render"
    /\ ext.status = "ok" /\ ren = "ok"
    /\ out.exists /\ Len(Verts) = ChunkSize + 1

\* the number a string of decimal digits denotes
RECURSIVE Decimal(_)
Decimal(ds) ==
    IF ds = <<>> THEN 0 ELSE 10 * Decimal(SubSeq(ds, 1, Len(ds) - 1)) + DigitVal(ds[Len(ds)])

AllDigits(ds) == ds # <<>> /\ \A i \in 1..Len(ds) : IsDigit(ds[i])

\* C7: splitting the rendered index lines on commas and reading each token as
\* a decimal integer gives back the sequence of non-negative integers of the
\* intermediate file.
IndicesRoundTrip ==
    (Rendered /\ \A k \in 1..Len(Inds) : Inds[k] >= 0) =>
        LET fields == ArrayFields(out.text, IndicesOpen)
        IN  /\ Len(fields) = Len(Inds)
            /\ \A k \in 1..Len(Inds) : AllDigits(fields[k]) /\ Decimal(fields[k]) = Inds[k]

IndicesRoundTripWitness ==
    /\ Rendered
    /\ Len(Inds) = 2 * ChunkSize
    /\ \A k \in 1..Len(Inds) : Inds[k] >= 0
    /\ \E k \in 1..Len(Inds) : Inds[k] >= 100

\* a literal with exactly 6 digits after the decimal point
SixDecimals(lit) ==
    LET body == Unsigned(lit)
    IN  /\ Len(body) > FracDigits + 1
        /\ body[Len(body) - FracDigits] = "."
        /\ \A i \in 1..Len(body) : i # Len(body) - FracDigits => IsDigit(body[i])

\* the value of such a literal, in millionths
Millionths(lit) ==
    LET u == Decimal(NoDots(Unsigned(lit)))
    IN  IF Negative(lit) THEN 0 - u ELSE u

Abs(n) == IF n < 0 THEN 0 - n ELSE n

\* |lit - x| <= 5e-7, both sides scaled by 10^e with e = max(x.k, 7)
Within5e7(lit, x) ==
    LET e == IF x.k > FracDigits + 1 THEN x.k ELSE FracDigits + 1
        signed == IF x.neg THEN 0 - x.m ELSE x.m
    IN  Abs(Millionths(lit) * Pow10(e - FracDigits) - signed * Pow10(e - x.k))
            <= 5 * Pow10(e - FracDigits - 1)

\* C8, as claimed: every vertex value of the intermediate file is rendered
\* with exactly 6 digits after the decimal point, and the literal read back is
\* within 5e-7 of the value.
VerticesRoundTrip ==
    Rendered =>
        LET fields == ArrayFields(out.text, VerticesOpen)
        IN  /\ Len(fields) = Len(Verts)
            /\ \A k \in 1..Len(Verts) :
                  SixDecimals(fields[k]) /\ Within5e7(fields[k], Verts[k])

\* C8, amended: the same for every finite vertex value.
FiniteVerticesRoundTrip ==
    Rendered =>
        LET fields == ArrayFields(out.text, VerticesOpen)
        IN  /\ Len(fields) = Len(Verts)
            /\ \A k \in 1..Len(Verts) :
                  Verts[k].kind = "fin" =>
                      SixDecimals(fields[k]) /\ Within5e7(fields[k], Verts[k])

FiniteVerticesWitness ==
    /\ Rendered
    /\ Len(Verts) > ChunkSize
    /\ \E k \in 1..Len(Verts) : Verts[k] = Fin(FALSE, 31415927, 7)
    /\ \E k \in 1..Len(Verts) : Verts[k] = Fin(FALSE, 78125, 7)
    /\ \E k \in 1..Len(Verts) : Verts[k] = Fin(TRUE, 4, 7)

\* q is the quotient of n by 3, rounded down
Floor3(n, q) == 3 * q <= n /\ n < 3 * q + 3

Printed(what) == {ext.stdout[i].n : i \in {j \in 1..Len(ext.stdout) : ext.stdout[j].what = what}}

\* C9: the Extractor reports floor(len(vertices)/3) vertices and
\* floor(len(indices)/3) triangles, whatever the lengths; for 6 vertex values
\* and 3 index values, 2 vertices and 1 triangles.
ProgressCounts ==
    /\ (ExtractorRan /\ VBlockValid(params)) =>
          /\ Cardinality(Printed("vertices")) = 1
          /\ \A q \in Printed("vertices") : Floor3(params.vLen, q)
    /\ (ExtractorRan /\ VBlockValid(params) /\ FBlockValid(params)) =>
          /\ Cardinality(Printed("triangles")) = 1
          /\ \A q \in Printed("triangles") : Floor3(params.fLen, q)
    /\ (ExtractorRan /\ VBlockValid(params) /\ FBlockValid(params)
            /\ params.vLen = 6 /\ params.fLen = 3) =>
          Printed("vertices") = {2} /\ Printed("triangles") = {1}

ProgressCountsWitness ==
    /\ ExtractorRan /\ VBlockValid(params) /\ FBlockValid(params)
    /\ params.vLen = 6 /\ params.fLen = 3 /\ params.vPal = 3
    /\ ext.status = "ok"

\* the run of the Extractor on the document fails
Fails(p) == ~p.exists \/ VAbsent(p) \/ FAbsent(p) \/ Malformed(p)

\* C10: a failing run of the Extractor (a pattern absent, a malformed token)
\* leaves the intermediate file as it was, and any other run leaves in it
\* both complete sequences.
AllOrNothing ==
    [][ExtractStep =>
          IF Fails(params)
          THEN inter' = inter
          ELSE /\ inter'.exists
               /\ Len(inter'.members) = 2
               /\ Lookup(inter'.members, "vertices") = VValues(params)
               /\ Lookup(inter'.members, "indices") = FValues(params)]_vars

AllOrNothingWitness ==
    /\ ExtractorRan
    /\ FAbsent(params) /\ VBlockValid(params)
    /\ ext.status = "NameError"
    /\ inter = OldJson

====
